---- MODULE Spec2Model ----
(***************************************************************************)
(* Model of the quotation system of src/app.py: the stored Products,       *)
(* Suppliers (Fornecedor), Requests (Requisicao) and Quotations (Cotacao)  *)
(* and the web handlers that change them.  One action per handler; the     *)
(* submitted form of a handler is drawn from small sets and recorded,      *)
(* with the handler's outcome, in the variable ult.                        *)
(*                                                                         *)
(* Strings that the code parses are sequences of one-character strings.    *)
(* Prices are integers in centavos (1/100), which is exact for every       *)
(* string of the input sets (at most two decimals).  The alerts and the    *)
(* ranking compute on the stored Floats; their operations are modelled on  *)
(* binary64 numbers, rounded as the hardware rounds them.                  *)
(***************************************************************************)
EXTENDS Integers, Sequences, FiniteSets, TLC

\* Bounds of the model: the highest row id of each table.
MaxForn == 2
MaxReq == 2
MaxCot == 2

VARIABLES
    produtos,       \* set of Produto.id
    fornecedores,   \* set of Fornecedor.id
    requisicoes,    \* Requisicao.id -> [produto_id, quantidade, status, forns]
    cotacoes,       \* Cotacao.id -> [preco, produto_id, fornecedor_id, requisicao_origem_id]
    ult,            \* the web request being answered: its handler, its form, the
                    \* rows it found and its outcome; Ocioso between requests
    usuarios,       \* Usuario.id -> [username, email, senha, nome_completo, ativo,
                    \* ultimo_acesso]
    session         \* the session cookie of the client: a record with the fields
                    \* usuario_id, username and nome, or without fields

bd == <<produtos, fornecedores, requisicoes, cotacoes>>
web == <<usuarios, session>>
vars == <<produtos, fornecedores, requisicoes, cotacoes, ult, usuarios, session>>

----------------------------------------------------------------------------
(* Helpers *)

Maximo(S) == CHOOSE x \in S : \A y \in S : y <= x
Minimo(S) == CHOOSE x \in S : \A y \in S : x <= y

\* The id SQLite gives a new row of a table whose INTEGER PRIMARY KEY has no
\* AUTOINCREMENT: one more than the highest id in use.
NovoId(ids) == IF ids = {} THEN 1 ELSE Maximo(ids) + 1

Perms(S) == {s \in [1..Cardinality(S) -> S] : \A i, j \in 1..Cardinality(S) : s[i] = s[j] => i = j}

RECURSIVE Ascendente(_)
Ascendente(S) == IF S = {} THEN <<>>
                 ELSE LET m == CHOOSE x \in S : \A y \in S : x <= y
                      IN <<m>> \o Ascendente(S \ {m})

\* A table without rows.
SemLinhas == [x \in {} |-> 0]

\* The elements of the sequence s that are in S, in the order of s.
RECURSIVE Filtra(_, _)
Filtra(s, S) == IF s = <<>> THEN <<>>
                ELSE IF Head(s) \in S THEN <<Head(s)>> \o Filtra(Tail(s), S)
                ELSE Filtra(Tail(s), S)

----------------------------------------------------------------------------
(* parse_moeda *)

Digitos == {"0", "1", "2", "3", "4", "5", "6", "7", "8", "9"}

ValorDigito(c) ==
    CASE c = "0" -> 0 [] c = "1" -> 1 [] c = "2" -> 2 [] c = "3" -> 3 [] c = "4" -> 4
      [] c = "5" -> 5 [] c = "6" -> 6 [] c = "7" -> 7 [] c = "8" -> 8 [] c = "9" -> 9

RECURSIVE ValorInteiro(_)
ValorInteiro(s) == IF s = <<>> THEN 0
                   ELSE ValorInteiro(SubSeq(s, 1, Len(s) - 1)) * 10 + ValorDigito(s[Len(s)])

\* str.replace(c, '')
RECURSIVE Remove(_, _)
Remove(s, c) == IF s = <<>> THEN <<>>
                ELSE IF Head(s) = c THEN Remove(Tail(s), c)
                ELSE <<Head(s)>> \o Remove(Tail(s), c)

\* str.replace('R$', '')
RECURSIVE RemoveCifrao(_)
RemoveCifrao(s) == IF Len(s) < 2 THEN s
                   ELSE IF s[1] = "R" /\ s[2] = "$" THEN RemoveCifrao(SubSeq(s, 3, Len(s)))
                   ELSE <<Head(s)>> \o RemoveCifrao(Tail(s))

\* str.replace(a, b) for one-character a and b
Troca(s, a, b) == [i \in 1..Len(s) |-> IF s[i] = a THEN b ELSE s[i]]

\* str.strip()
RECURSIVE Strip(_)
Strip(s) == IF s = <<>> THEN s
            ELSE IF Head(s) = " " THEN Strip(Tail(s))
            ELSE IF s[Len(s)] = " " THEN Strip(SubSeq(s, 1, Len(s) - 1))
            ELSE s

Nenhum == [ok |-> FALSE, v |-> 0]
Algum(n) == [ok |-> TRUE, v |-> n]

\* float(s) for the decimal notation: optional sign, digits, at most one
\* point, at least one digit; anything else raises ValueError (Nenhum).
\* The value is in centavos.
Float(t) ==
    LET s == Strip(t)
        neg == s # <<>> /\ Head(s) = "-"
        c == IF s # <<>> /\ Head(s) \in {"-", "+"} THEN Tail(s) ELSE s
        pts == {i \in 1..Len(c) : c[i] = "."}
        p == IF pts = {} THEN Len(c) + 1 ELSE Maximo(pts)
        int == SubSeq(c, 1, p - 1)
        frac == SubSeq(c, p + 1, Len(c))
        frac2 == IF Len(frac) = 0 THEN <<"0", "0">>
                 ELSE IF Len(frac) = 1 THEN frac \o <<"0">>
                 ELSE SubSeq(frac, 1, 2)
        abs == ValorInteiro(int) * 100 + ValorInteiro(frac2)
    IN IF /\ Cardinality(pts) <= 1
          /\ Len(int) + Len(frac) >= 1
          /\ \A i \in 1..Len(int) : int[i] \in Digitos
          /\ \A i \in 1..Len(frac) : frac[i] \in Digitos
       THEN Algum(IF neg THEN 0 - abs ELSE abs)
       ELSE Nenhum

parse_moeda(valor_str) ==
    IF valor_str = <<>> THEN Nenhum
    ELSE Float(Strip(Troca(Remove(RemoveCifrao(valor_str), "."), ",", ".")))

----------------------------------------------------------------------------
(* Input sets *)

\* Submitted price strings: blank, unparseable, zero, "3,00" and "2.50".
LanceVazio == <<>>
LanceLetra == <<"x">>
LanceZero == <<"0">>
LanceVirgula == <<"3", ",", "0", "0">>
LancePonto == <<"2", ".", "5", "0">>
Lances == {LanceVazio, LanceLetra, LanceZero, LanceVirgula, LancePonto}

\* Product codes: the catalogue of inicializar_dados, scaled to one of its
\* codes (8, "FILTRO RACOR").
CodigoPadrao == 8

\* Submitted product ids: the catalogue's code and one that is not stored.
ProdutosForm == {CodigoPadrao, CodigoPadrao + 1}

\* Submitted product codes (produtos POST) and lengths of the description.
CodigosForm == { <<>>, <<"x">>, <<"0">>, <<"8">> }
NomesForm == {2, 3}

\* Submitted quantities (after type=int).
Quantidades == {0, 2}

\* float('inf')
Infinito == 100000000

----------------------------------------------------------------------------
(* State after db.create_all() and inicializar_dados() *)

Ocioso == [op |-> "nenhum"]

\* inicializar_dados: the user the application creates when it starts.
Admin == <<"a", "d", "m", "i", "n">>
EmailAdmin == <<"a", "d", "m", "i", "n", "@", "t", "i", "n", "d", "i", "a", "n", "a", ".", "c", "o", "m">>
SenhaAdmin == <<"a", "d", "m", "i", "n", "1", "2", "3">>
NomeAdmin == <<"A", "d", "m", "i", "n", "i", "s", "t", "r", "a", "d", "o", "r">>

\* The table of the users after inicializar_dados.  senha stands for
\* senha_hash (check_password_hash accepts the password that was hashed and
\* no other), ultimo_acesso is 0 for NULL and 1 for a time.
UsuariosPadrao ==
    1 :> [username |-> Admin, email |-> EmailAdmin, senha |-> SenhaAdmin,
          nome_completo |-> NomeAdmin, ativo |-> TRUE, ultimo_acesso |-> 0]

\* A session without fields: the client has no cookie, or logout cleared it.
SemSessao == [x \in {} |-> 0]

\* usuario.nome_completo or usuario.username
NomeOuUsername(usuario) ==
    IF usuario.nome_completo # <<>> THEN usuario.nome_completo ELSE usuario.username

\* login: the access is written on the user, and the session is started.
Entrou(usrs, id) == [usrs EXCEPT ![id].ultimo_acesso = 1]
SessaoDe(usrs, id) ==
    [usuario_id |-> id, username |-> usrs[id].username, nome |-> NomeOuUsername(usrs[id])]

\* The handlers behind login_obrigatorio are entered with the session of the
\* user admin, who has logged in.
Init ==
    /\ produtos = {CodigoPadrao}
    /\ fornecedores = 1..MaxForn
    /\ requisicoes = SemLinhas
    /\ cotacoes = SemLinhas
    /\ ult = Ocioso
    /\ usuarios = Entrou(UsuariosPadrao, 1)
    /\ session = SessaoDe(UsuariosPadrao, 1)

\* The rows a handler finds when it starts.
Antes == [produtos |-> produtos, fornecedores |-> fornecedores,
          requisicoes |-> requisicoes, cotacoes |-> cotacoes]

\* What is recorded of a handled request.
Atendido(op, pedido, ok) == [op |-> op, pedido |-> pedido, ok |-> ok, antes |-> Antes]

\* The response is sent and the request is over.
Responde ==
    /\ ult # Ocioso
    /\ UNCHANGED web
    /\ ult' = Ocioso
    /\ UNCHANGED bd

\* Fornecedor.query.filter_by(ativo=True): ativo is set by its column
\* default alone, so every stored supplier is active.
Ativos(forns) == {f \in forns : TRUE}

\* db.session.delete(row): the table without the row.
SemLinha(tab, id) == [x \in DOMAIN tab \ {id} |-> tab[x]]

\* (mutant) the row takes the place of the last row of the table.
ComLinhaNoLugar(tab, linha) ==
    IF DOMAIN tab = {} THEN 1 :> linha
    ELSE [tab EXCEPT ![Maximo(DOMAIN tab)] = linha]

\* db.session.add(row) and the flush: the table with the row, under a new id.
ComLinha(tab, linha) == tab @@ (NovoId(DOMAIN tab) :> linha)

----------------------------------------------------------------------------
(* requisicoes POST *)

\* (mutant) the submitted ids are taken without looking the suppliers up.
SelecionadosSemBusca(ids, forns) == ids

\* for f_id in fornecedores_ids: forn = Fornecedor.query.get(f_id); if forn:
\* append.  The suppliers of the submitted ids that are stored.
Selecionados(ids, forns) == ids \cap forns

Requisicoes(produto_id, quantidade, fornecedores_ids) ==
    LET pedido == [produto_id |-> produto_id, quantidade |-> quantidade,
                   fornecedores_ids |-> fornecedores_ids]
    IN IF produto_id \notin produtos
       THEN /\ UNCHANGED bd
            /\ UNCHANGED web
            /\ ult' = Atendido("requisicoes", pedido, FALSE)
       ELSE LET ids == IF fornecedores_ids = {} THEN fornecedores ELSE fornecedores_ids
                nova_req == [produto_id |-> produto_id, quantidade |-> quantidade,
                             status |-> "Pendente", forns |-> Selecionados(ids, fornecedores)]
            IN /\ NovoId(DOMAIN requisicoes) <= MaxReq
               /\ requisicoes' = ComLinha(requisicoes, nova_req)
               /\ UNCHANGED <<produtos, fornecedores, cotacoes>>
               /\ UNCHANGED web
               /\ ult' = Atendido("requisicoes", pedido, TRUE)

----------------------------------------------------------------------------
(* selecionar_fornecedores POST *)

SelecionarFornecedores(produto_id, quantidade, fornecedores_ids) ==
    LET pedido == [produto_id |-> produto_id, quantidade |-> quantidade,
                   fornecedores_ids |-> fornecedores_ids]
    IN IF produto_id \notin produtos
       THEN /\ UNCHANGED bd
            /\ UNCHANGED web
            /\ ult' = Atendido("selecionar_fornecedores", pedido, FALSE)
       ELSE LET ids == IF fornecedores_ids = {} THEN Ativos(fornecedores) ELSE fornecedores_ids
                nova_req == [produto_id |-> produto_id, quantidade |-> quantidade,
                             status |-> "Pendente", forns |-> Selecionados(ids, fornecedores)]
            IN /\ NovoId(DOMAIN requisicoes) <= MaxReq
               /\ requisicoes' = ComLinha(requisicoes, nova_req)
               /\ UNCHANGED <<produtos, fornecedores, cotacoes>>
               /\ UNCHANGED web
               /\ ult' = Atendido("selecionar_fornecedores", pedido, TRUE)

----------------------------------------------------------------------------
(* remover_requisicao *)

RemoverRequisicao(id) ==
    IF id \notin DOMAIN requisicoes
    THEN /\ UNCHANGED bd
         /\ UNCHANGED web
         /\ ult' = Atendido("remover_requisicao", [id |-> id], FALSE)
    ELSE /\ requisicoes' = SemLinha(requisicoes, id)
         /\ UNCHANGED <<produtos, fornecedores, cotacoes>>
         /\ UNCHANGED web
         /\ ult' = Atendido("remover_requisicao", [id |-> id], TRUE)

----------------------------------------------------------------------------
(* realizar_cotacao POST *)

\* The status realizar_cotacao gives the request it quotes.
StatusCotado(req) == "Cotado"

RealizarCotacao(req_id, fornecedor_id, preco_str) ==
    LET preco == parse_moeda(preco_str)
        pedido == [req_id |-> req_id, fornecedor_id |-> fornecedor_id, preco_str |-> preco_str]
    IN IF \/ req_id \notin DOMAIN requisicoes
          \/ fornecedor_id = 0
          \/ ~preco.ok
          \/ preco.v <= 0
       THEN /\ UNCHANGED bd
            /\ UNCHANGED web
            /\ ult' = Atendido("realizar_cotacao", pedido, FALSE)
       ELSE LET nova_cot == [preco |-> preco.v, produto_id |-> requisicoes[req_id].produto_id,
                             fornecedor_id |-> fornecedor_id, requisicao_origem_id |-> req_id]
            IN /\ NovoId(DOMAIN cotacoes) <= MaxCot
               /\ cotacoes' = ComLinha(cotacoes, nova_cot)
               /\ requisicoes' = [requisicoes EXCEPT
                                    ![req_id].status = StatusCotado(requisicoes[req_id])]
               /\ UNCHANGED <<produtos, fornecedores>>
               /\ UNCHANGED web
               /\ ult' = Atendido("realizar_cotacao", pedido, TRUE)

----------------------------------------------------------------------------
(* mapa_cotacao POST *)

\* (mutant) the query of the requests has no filter on the status.
PendentesSemFiltro(reqs) == DOMAIN reqs

\* Requisicao.query.filter_by(status='Pendente')
Pendentes(reqs) == {r \in DOMAIN reqs : reqs[r].status = "Pendente"}

\* request.form.get(input_name, "")
Campo(form, rid, fid) == IF <<rid, fid>> \in DOMAIN form THEN form[<<rid, fid>>] ELSE <<>>

\* (mutant) a bid that is not greater than 0 is taken as a price.
ComparaSemPositivo(acc, forn, valor_str, preco) ==
    IF valor_str # <<>> /\ preco.ok /\ preco.v < acc.menor_preco
    THEN [menor_preco |-> preco.v, vencedor_id |-> forn]
    ELSE acc

\* (mutant) a later candidate takes over with an equal price.
ComparaEmpate(acc, forn, valor_str, preco) ==
    IF valor_str # <<>> /\ preco.ok /\ preco.v > 0 /\ preco.v <= acc.menor_preco
    THEN [menor_preco |-> preco.v, vencedor_id |-> forn]
    ELSE acc

\* One candidate's bid, and the price parse_moeda reads in it, against the
\* lowest price so far.
Compara(acc, forn, valor_str, preco) ==
    IF valor_str # <<>> /\ preco.ok /\ preco.v > 0 /\ preco.v < acc.menor_preco
    THEN [menor_preco |-> preco.v, vencedor_id |-> forn]
    ELSE acc

\* valor_str = request.form.get(input_name, "").strip(); preco = parse_moeda(valor_str)
Disputa(acc, forn, valor_str) == Compara(acc, forn, valor_str, parse_moeda(valor_str))

\* The scan of one request's candidates, in the order the list is iterated.
RECURSIVE Varre(_, _, _, _)
Varre(lista, rid, form, acc) ==
    IF lista = <<>> THEN acc
    ELSE Varre(Tail(lista), rid, form,
               Disputa(acc, Head(lista), Strip(Campo(form, rid, Head(lista)))))

\* (mutant) every supplier is scanned, selected or not.
ParaCotarTodos(req, forns, ordem) == Filtra(ordem, Ativos(forns))

\* req.fornecedores_selecionados or fornecedores.  ordem is the order in
\* which the supplier rows come back from the store.
ParaCotar(req, forns, ordem) ==
    IF req.forns # {} THEN Filtra(ordem, req.forns) ELSE Filtra(ordem, Ativos(forns))

Vencedor(req, rid, forns, form, ordem) ==
    Varre(ParaCotar(req, forns, ordem), rid, form,
          [menor_preco |-> Infinito, vencedor_id |-> 0])

\* (mutant) the status of a request with a winner stays Cotado.
StatusLoteCotado(v) == IF v.vencedor_id # 0 THEN "Cotado" ELSE "Processado"

\* The status the loop leaves on a request it has gone through.
StatusLote(v) == "Processado"

\* resultados: the buckets of the winning suppliers, in the order in which
\* they were first entered.  A line keeps the id of its request (the
\* rendered line does not), so that the lines of a request can be named.
Posicao(resultados, fid) == {i \in 1..Len(resultados) : resultados[i].fornecedor = fid}

\* (mutant) the subtotal of a line is the price, whatever the quantity.
ItemSemQuantidade(req, rid, v) ==
    [requisicao |-> rid, produto_id |-> req.produto_id, preco |-> v.menor_preco,
     quantidade |-> req.quantidade, subtotal |-> v.menor_preco]

Item(req, rid, v) ==
    [requisicao |-> rid, produto_id |-> req.produto_id, preco |-> v.menor_preco,
     quantidade |-> req.quantidade, subtotal |-> v.menor_preco * req.quantidade]

Acumula(resultados, req, rid, v) ==
    LET com == IF Posicao(resultados, v.vencedor_id) = {}
               THEN Append(resultados, [fornecedor |-> v.vencedor_id, itens |-> <<>>, total |-> 0])
               ELSE resultados
        i == CHOOSE k \in Posicao(com, v.vencedor_id) : TRUE
    IN [com EXCEPT ![i].itens = Append(@, Item(req, rid, v)),
                   ![i].total = @ + v.menor_preco * req.quantidade]

\* One turn of the loop: the request rid, whose scan has given v.
Passo(sessao, rid, v) ==
    [requisicoes |-> [sessao.requisicoes EXCEPT ![rid].status = StatusLote(v)],
     cotacoes |-> IF v.vencedor_id # 0
                  THEN ComLinha(sessao.cotacoes,
                                [preco |-> v.menor_preco,
                                 produto_id |-> sessao.requisicoes[rid].produto_id,
                                 fornecedor_id |-> v.vencedor_id,
                                 requisicao_origem_id |-> rid])
                  ELSE sessao.cotacoes,
     resultados |-> IF v.vencedor_id # 0
                    THEN Acumula(sessao.resultados, sessao.requisicoes[rid], rid, v)
                    ELSE sessao.resultados]

\* The session after the loop has gone through the requests of pend, in order.
RECURSIVE Lote(_, _, _, _, _)
Lote(pend, sessao, forns, form, ordem) ==
    IF pend = <<>> THEN sessao
    ELSE Lote(Tail(pend),
              Passo(sessao, Head(pend),
                    Vencedor(sessao.requisicoes[Head(pend)], Head(pend), forns, form, ordem)),
              forns, form, ordem)

\* relatorio.sort(key=total, reverse=True): a stable sort, highest total first.
RECURSIVE Insere(_, _)
Insere(ordenado, b) ==
    IF ordenado = <<>> THEN <<b>>
    ELSE IF Head(ordenado).total >= b.total THEN <<Head(ordenado)>> \o Insere(Tail(ordenado), b)
    ELSE <<b>> \o ordenado

\* (mutant) the report is left in the order in which the buckets were entered.
RelatorioSemOrdem(resultados) == resultados

RECURSIVE Relatorio(_)
Relatorio(resultados) ==
    IF resultados = <<>> THEN <<>>
    ELSE Insere(Relatorio(SubSeq(resultados, 1, Len(resultados) - 1)),
                resultados[Len(resultados)])

\* (mutant) what the session had written stays.
RollbackParcial(antes, sessao) == sessao

\* db.session.rollback(): the stored rows are those before the handler.
Rollback(antes, sessao) == antes

\* falha = 0: no error.  falha = k > 0: an error when k - 1 requests have
\* been gone through (k - 1 = all of them: the error is at the commit).
Feito(pendentes, falha) == IF falha = 0 THEN pendentes ELSE SubSeq(pendentes, 1, falha - 1)

\* The rows and the empty resultados the loop starts from.
Sessao == [requisicoes |-> requisicoes, cotacoes |-> cotacoes, resultados |-> <<>>]

\* The end of the handler: the commit and the report, or the rollback.
\* max_cot bounds the ids of the quotations of the model.
GravaAte(max_cot, sessao, pedido, falha) ==
    /\ \A c \in DOMAIN sessao.cotacoes : c <= max_cot
    /\ requisicoes' = IF falha = 0 THEN sessao.requisicoes
                       ELSE Rollback(Sessao, sessao).requisicoes
    /\ cotacoes' = IF falha = 0 THEN sessao.cotacoes ELSE Rollback(Sessao, sessao).cotacoes
    /\ UNCHANGED <<produtos, fornecedores>>
    /\ UNCHANGED web
    /\ ult' = Atendido("mapa_cotacao", pedido, falha = 0)
                @@ [relatorio |-> IF falha = 0 THEN Relatorio(sessao.resultados) ELSE <<>>]

MapaCotacaoAte(max_cot, form, ordem, falha) ==
    IF Pendentes(requisicoes) = {}
    THEN /\ falha = 0
         /\ UNCHANGED bd
         /\ UNCHANGED web
         /\ ult' = Atendido("mapa_cotacao", [form |-> form, ordem |-> ordem, falha |-> falha],
                             FALSE)
    ELSE GravaAte(max_cot,
                  Lote(Feito(Ascendente(Pendentes(requisicoes)), falha), Sessao,
                       fornecedores, form, ordem),
                  [form |-> form, ordem |-> ordem, falha |-> falha], falha)

MapaCotacao(form, ordem, falha) == MapaCotacaoAte(MaxCot, form, ordem, falha)

----------------------------------------------------------------------------
(* deletar_cotacao_final *)

\* (mutant) only a request that is Cotado goes back to Pendente.
ReabreCotado(reqs, origem) ==
    IF origem # 0 /\ origem \in DOMAIN reqs /\ reqs[origem].status = "Cotado"
    THEN [reqs EXCEPT ![origem].status = "Pendente"]
    ELSE reqs

\* if cotacao.requisicao_origem_id: the request of that id, when there is
\* one, goes back to Pendente.
Reabre(reqs, origem) ==
    IF origem # 0 /\ origem \in DOMAIN reqs
    THEN [reqs EXCEPT ![origem].status = "Pendente"]
    ELSE reqs

DeletarCotacaoFinal(id) ==
    IF id \notin DOMAIN cotacoes
    THEN /\ UNCHANGED bd
         /\ UNCHANGED web
         /\ ult' = Atendido("deletar_cotacao_final", [id |-> id], FALSE)
    ELSE /\ requisicoes' = Reabre(requisicoes, cotacoes[id].requisicao_origem_id)
         /\ cotacoes' = SemLinha(cotacoes, id)
         /\ UNCHANGED <<produtos, fornecedores>>
         /\ UNCHANGED web
         /\ ult' = Atendido("deletar_cotacao_final", [id |-> id], TRUE)

----------------------------------------------------------------------------
(* fornecedores POST and deletar_fornecedor *)

Fornecedores ==
    /\ NovoId(fornecedores) <= MaxForn
    /\ fornecedores' = fornecedores \cup {NovoId(fornecedores)}
    /\ UNCHANGED <<produtos, requisicoes, cotacoes>>
    /\ UNCHANGED web
    /\ ult' = Atendido("fornecedores", [id |-> NovoId(fornecedores)], TRUE)

\* Fornecedor.cotacoes: the quotations whose fornecedor_id is the supplier's.
CotacoesDoFornecedor(cots, id) == {c \in DOMAIN cots : cots[c].fornecedor_id = id}

\* (mutant) the check of the supplier's quotations is left out.
TemHistoricoNunca(cots, id) == FALSE

\* if forn.cotacoes: the deletion is refused.
TemHistorico(cots, id) == CotacoesDoFornecedor(cots, id) # {}

DeletarFornecedor(id) ==
    IF id \notin fornecedores \/ TemHistorico(cotacoes, id)
    THEN /\ UNCHANGED bd
         /\ UNCHANGED web
         /\ ult' = Atendido("deletar_fornecedor", [id |-> id], FALSE)
    ELSE /\ fornecedores' = fornecedores \ {id}
         \* the rows of requisicao_fornecedores of the supplier go with it
         /\ requisicoes' = [r \in DOMAIN requisicoes |->
                               [requisicoes[r] EXCEPT !.forns = @ \ {id}]]
         /\ UNCHANGED <<produtos, cotacoes>>
         /\ UNCHANGED web
         /\ ult' = Atendido("deletar_fornecedor", [id |-> id], TRUE)

----------------------------------------------------------------------------
(* produtos POST and deletar_produto *)

\* (mutant) the check that the code is greater than zero is left out.
validar_codigo_sem_positivo(codigo) ==
    LET c == Strip(codigo)
    IN c # <<>> /\ \A i \in 1..Len(c) : c[i] \in Digitos

validar_codigo_produto(codigo) ==
    LET s == Strip(codigo)
        neg == s # <<>> /\ Head(s) = "-"
        c == IF s # <<>> /\ Head(s) \in {"-", "+"} THEN Tail(s) ELSE s
        int == c # <<>> /\ \A i \in 1..Len(c) : c[i] \in Digitos
    IN int /\ (IF neg THEN 0 - ValorInteiro(c) ELSE ValorInteiro(c)) > 0

Produtos(id_prod, nome_len) ==
    LET pedido == [id_prod |-> id_prod, nome_len |-> nome_len]
    IN IF \/ id_prod = <<>>
          \/ nome_len < 3
          \/ ~validar_codigo_produto(id_prod)
          \/ ValorInteiro(Strip(id_prod)) \in produtos
       THEN /\ UNCHANGED bd
            /\ UNCHANGED web
            /\ ult' = Atendido("produtos", pedido, FALSE)
       ELSE /\ produtos' = produtos \cup {ValorInteiro(Strip(id_prod))}
            /\ UNCHANGED <<fornecedores, requisicoes, cotacoes>>
            /\ UNCHANGED web
            /\ ult' = Atendido("produtos", pedido, TRUE)

\* (mutant) only the product's requests are looked at.
ProdutoTemHistoricoSoRequisicoes(cots, reqs, id) ==
    \E r \in DOMAIN reqs : reqs[r].produto_id = id

\* if prod.cotacoes or prod.requisicoes: the deletion is refused.
ProdutoTemHistorico(cots, reqs, id) ==
    \/ \E c \in DOMAIN cots : cots[c].produto_id = id
    \/ \E r \in DOMAIN reqs : reqs[r].produto_id = id

DeletarProduto(id) ==
    IF id \notin produtos \/ ProdutoTemHistorico(cotacoes, requisicoes, id)
    THEN /\ UNCHANGED bd
         /\ UNCHANGED web
         /\ ult' = Atendido("deletar_produto", [id |-> id], FALSE)
    ELSE /\ produtos' = produtos \ {id}
         /\ UNCHANGED <<fornecedores, requisicoes, cotacoes>>
         /\ UNCHANGED web
         /\ ult' = Atendido("deletar_produto", [id |-> id], TRUE)

----------------------------------------------------------------------------
(* The system: one web request at a time *)

\* The forms of a batch: one field for each supplier and each pending
\* request, or for some of the pending requests only.
Forms(lances) == UNION {[P \X fornecedores -> lances] : P \in SUBSET Pendentes(requisicoes)}

\* Where a batch can fail.
Falhas == 0..(Cardinality(Pendentes(requisicoes)) + 1)

\* Every handler, with the batch fed blank fields and one valid price.
LancesCiclo == {LanceVazio, LanceLetra, LanceZero, LanceVirgula}
LancesMapaCiclo == {LanceVazio, LanceVirgula}
QuantidadesCiclo == {2}

Next ==
    \/ /\ ult = Ocioso
       /\ \/ \E p \in ProdutosForm, q \in QuantidadesCiclo, fs \in SUBSET (1..MaxForn) :
                Requisicoes(p, q, fs)
          \/ \E p \in ProdutosForm, q \in QuantidadesCiclo, fs \in SUBSET (1..MaxForn) :
                SelecionarFornecedores(p, q, fs)
          \/ \E id \in 1..MaxReq : RemoverRequisicao(id)
          \/ \E id \in 1..MaxReq, f \in 0..MaxForn, l \in LancesCiclo :
                RealizarCotacao(id, f, l)
          \/ \E form \in Forms(LancesMapaCiclo), ordem \in Perms(fornecedores), falha \in Falhas :
                MapaCotacao(form, ordem, falha)
          \/ \E id \in 1..MaxCot : DeletarCotacaoFinal(id)
          \/ Fornecedores
          \/ \E id \in 1..MaxForn : DeletarFornecedor(id)
          \/ \E c \in CodigosForm, n \in NomesForm : Produtos(c, n)
          \/ \E id \in ProdutosForm : DeletarProduto(id)
    \/ Responde

Spec == Init /\ [][Next]_vars

\* The batch allocation on every form, over the requests that the handlers
\* creating requests and deleting suppliers leave pending.
NextLote ==
    \/ /\ ult = Ocioso
       /\ \/ \E q \in Quantidades, fs \in SUBSET (1..MaxForn) :
                Requisicoes(CodigoPadrao, q, fs)
          \/ \E q \in Quantidades, fs \in SUBSET (1..MaxForn) :
                SelecionarFornecedores(CodigoPadrao, q, fs)
          \/ Fornecedores
          \/ \E id \in 1..MaxForn : DeletarFornecedor(id)
          \/ \E form \in Forms(Lances), ordem \in Perms(fornecedores), falha \in Falhas :
                MapaCotacao(form, ordem, falha)
    \/ Responde

SpecLote == Init /\ [][NextLote]_vars

----------------------------------------------------------------------------
(* Python float and SQLite REAL: IEEE 754 binary64, round to nearest, ties   *)
(* to even, after every operation.  The significand has 53 bits, more than  *)
(* an integer of the checker holds, so that a natural number is kept as    *)
(* NumLimbs limbs of BitsLimb bits, the least significant first.           *)
(* Exponents stay far from the ends of their range: no overflow, no        *)
(* subnormal number.                                                       *)

BitsLimb == 15
NumLimbs == 8
BaseLimb == 2 ^ BitsLimb
BitsMantissa == 53
BitsGuarda == 56

\* The natural number n < 2^31.
RECURSIVE BigR(_, _)
BigR(n, i) == IF i > NumLimbs THEN <<>> ELSE <<n % BaseLimb>> \o BigR(n \div BaseLimb, i + 1)

Big(n) == BigR(n, 1)

BigZero == Big(0)

\* The number, when it is below 2^30.
BigInt(a) == a[1] + a[2] * BaseLimb

Limb(a, j) == IF j \in 1..NumLimbs THEN a[j] ELSE 0

RECURSIVE BigAddR(_, _, _, _)
BigAddR(a, b, i, vai) ==
    IF i > NumLimbs THEN <<>>
    ELSE <<(a[i] + b[i] + vai) % BaseLimb>>
            \o BigAddR(a, b, i + 1, (a[i] + b[i] + vai) \div BaseLimb)

BigAdd(a, b) == BigAddR(a, b, 1, 0)

\* a - b for a >= b
RECURSIVE BigSubR(_, _, _, _)
BigSubR(a, b, i, vem) ==
    IF i > NumLimbs THEN <<>>
    ELSE <<(a[i] - b[i] - vem + BaseLimb) % BaseLimb>>
            \o BigSubR(a, b, i + 1, IF a[i] - b[i] - vem < 0 THEN 1 ELSE 0)

BigSub(a, b) == BigSubR(a, b, 1, 0)

\* -1, 0, 1 as a is below, equal to, above b
RECURSIVE BigCmpR(_, _, _)
BigCmpR(a, b, i) ==
    IF i = 0 THEN 0
    ELSE IF a[i] > b[i] THEN 1
    ELSE IF a[i] < b[i] THEN 0 - 1
    ELSE BigCmpR(a, b, i - 1)

BigCmp(a, b) == BigCmpR(a, b, NumLimbs)

\* a * 2^k and a \div 2^k
RECURSIVE BigShlR(_, _, _)
BigShlR(a, k, i) ==
    IF i > NumLimbs THEN <<>>
    ELSE <<((Limb(a, i - (k \div BitsLimb)) * 2 ^ (k % BitsLimb)) % BaseLimb)
             + (Limb(a, i - (k \div BitsLimb) - 1) \div 2 ^ (BitsLimb - (k % BitsLimb)))>>
            \o BigShlR(a, k, i + 1)

BigShl(a, k) == BigShlR(a, k, 1)

RECURSIVE BigShrR(_, _, _)
BigShrR(a, k, i) ==
    IF i > NumLimbs THEN <<>>
    ELSE <<(Limb(a, i + (k \div BitsLimb)) \div 2 ^ (k % BitsLimb))
             + ((Limb(a, i + (k \div BitsLimb) + 1) % 2 ^ (k % BitsLimb))
                   * 2 ^ (BitsLimb - (k % BitsLimb)))>>
            \o BigShrR(a, k, i + 1)

BigShr(a, k) == BigShrR(a, k, 1)

RECURSIVE BitsDe(_)
BitsDe(x) == IF x = 0 THEN 0 ELSE 1 + BitsDe(x \div 2)

\* The number of bits of a: 0 for 0.
RECURSIVE BigBitsR(_, _)
BigBitsR(a, i) ==
    IF i = 0 THEN 0
    ELSE IF a[i] # 0 THEN (i - 1) * BitsLimb + BitsDe(a[i])
    ELSE BigBitsR(a, i - 1)

BigBits(a) == BigBitsR(a, NumLimbs)

\* a * x for a limb x
RECURSIVE BigMulLimbR(_, _, _, _)
BigMulLimbR(a, x, i, vai) ==
    IF i > NumLimbs THEN <<>>
    ELSE <<(a[i] * x + vai) % BaseLimb>>
            \o BigMulLimbR(a, x, i + 1, (a[i] * x + vai) \div BaseLimb)

BigMulLimb(a, x) == BigMulLimbR(a, x, 1, 0)

RECURSIVE BigMulR(_, _, _)
BigMulR(a, b, i) ==
    IF i > NumLimbs THEN BigZero
    ELSE IF b[i] = 0 THEN BigMulR(a, b, i + 1)
    ELSE BigAdd(BigShl(BigMulLimb(a, b[i]), BitsLimb * (i - 1)), BigMulR(a, b, i + 1))

BigMul(a, b) == BigMulR(a, b, 1)

\* Long division of n by d, where d has BitsMantissa bits, one limb of n at
\* a time from the most significant: the quotient q and the remainder r.
\* A limb of the quotient is the largest x with d * x <= r, for r < d * 2^15:
\* the quotient of the leading bits of r by those of d plus one is x or a
\* little less, and is raised until it is x.
BitsResto == BitsMantissa - BitsLimb

RECURSIVE BigDivLimb(_, _, _)
BigDivLimb(r, d, x) ==
    IF BigCmp(BigMulLimb(d, x + 1), r) <= 0 THEN BigDivLimb(r, d, x + 1) ELSE x

BigDivPasso(d, q, r, x) ==
    [q |-> BigAdd(BigShl(q, BitsLimb), Big(x)), r |-> BigSub(r, BigMulLimb(d, x))]

BigDivDesce(d, q, r) ==
    BigDivPasso(d, q, r,
                BigDivLimb(r, d, BigInt(BigShr(r, BitsResto)) \div (BigInt(BigShr(d, BitsResto)) + 1)))

RECURSIVE BigDivR(_, _, _, _)
BigDivR(n, d, i, qr) ==
    IF i = 0 THEN qr
    ELSE IF qr.r = BigZero /\ n[i] = 0
    THEN BigDivR(n, d, i - 1, [q |-> BigShl(qr.q, BitsLimb), r |-> BigZero])
    ELSE BigDivR(n, d, i - 1,
                 BigDivDesce(d, qr.q, BigAdd(BigShl(qr.r, BitsLimb), Big(n[i]))))

BigDivMod(n, d) == BigDivR(n, d, NumLimbs, [q |-> BigZero, r |-> BigZero])

\* A float: s * m * 2^e with s in {-1, 1} and m = 0 or 2^52 <= m < 2^53.
FZero == [s |-> 1, m |-> BigZero, e |-> 0]

\* The float of sign s nearest to n * 2^e (to n * 2^e plus a fraction of
\* 2^e when resto), ties to the even significand.  m0 is n without the bits
\* that do not fit, corte their number.
Arruma(s, m, e) ==
    IF BigBits(m) > BitsMantissa THEN [s |-> s, m |-> BigShr(m, 1), e |-> e + 1]
    ELSE [s |-> s, m |-> m, e |-> e]

Corta(s, n, e, resto, corte, m0) ==
    IF \/ BigCmp(BigSub(n, BigShl(m0, corte)), BigShl(Big(1), corte - 1)) > 0
       \/ /\ BigCmp(BigSub(n, BigShl(m0, corte)), BigShl(Big(1), corte - 1)) = 0
          /\ (resto \/ m0[1] % 2 = 1)
    THEN Arruma(s, BigAdd(m0, Big(1)), e + corte)
    ELSE [s |-> s, m |-> m0, e |-> e + corte]

ArredondaBits(s, n, e, resto, bits) ==
    IF bits = 0 THEN FZero
    ELSE IF bits <= BitsMantissa
    THEN [s |-> s, m |-> BigShl(n, BitsMantissa - bits), e |-> e - (BitsMantissa - bits)]
    ELSE Corta(s, n, e, resto, bits - BitsMantissa, BigShr(n, bits - BitsMantissa))

Arredonda(s, n, e, resto) == ArredondaBits(s, n, e, resto, BigBits(n))

\* float(n) for an integer n
FInt(n) == Arredonda(IF n < 0 THEN 0 - 1 ELSE 1, Big(IF n < 0 THEN 0 - n ELSE n), 0, FALSE)

FNeg(a) == [a EXCEPT !.s = 0 - a.s]

FMul(a, b) ==
    IF a.m = BigZero \/ b.m = BigZero THEN FZero
    ELSE Arredonda(a.s * b.s, BigMul(a.m, b.m), a.e + b.e, FALSE)

\* a / b for b # 0
FDivQ(a, b, qr) ==
    IF qr.r = BigZero THEN Arredonda(a.s * b.s, qr.q, a.e - b.e - BitsGuarda, FALSE)
    ELSE Arredonda(a.s * b.s, qr.q, a.e - b.e - BitsGuarda, TRUE)

FDiv(a, b) ==
    IF a.m = BigZero THEN FZero ELSE FDivQ(a, b, BigDivMod(BigShl(a.m, BitsGuarda), b.m))

\* a + b on significands brought to the same exponent e
FAddAlinhado(sa, na, sb, nb, e) ==
    IF sa = sb THEN Arredonda(sa, BigAdd(na, nb), e, FALSE)
    ELSE IF BigCmp(na, nb) >= 0 THEN Arredonda(sa, BigSub(na, nb), e, FALSE)
    ELSE Arredonda(sb, BigSub(nb, na), e, FALSE)

\* An operand more than BitsGuarda binary places below the other is less
\* than a quarter of its last place and leaves it as it is.
FAdd(a, b) ==
    IF a.m = BigZero THEN b
    ELSE IF b.m = BigZero THEN a
    ELSE IF a.e - b.e > BitsGuarda THEN a
    ELSE IF b.e - a.e > BitsGuarda THEN b
    ELSE IF a.e >= b.e THEN FAddAlinhado(a.s, BigShl(a.m, a.e - b.e), b.s, b.m, b.e)
    ELSE FAddAlinhado(a.s, a.m, b.s, BigShl(b.m, b.e - a.e), a.e)

FSub(a, b) == FAdd(a, FNeg(b))

\* a < b: the difference is a negative number (a difference is never
\* rounded to zero or across it).
FNegativo(d) == d.s < 0 /\ d.m # BigZero
FLt(a, b) == FNegativo(FSub(a, b))

\* round(x, 1), in tenths: the multiple of 0.1 nearest to the exact value of
\* x, ties to the even one.  The value is below 2^30 tenths.
DecimosCorta(s, n, corte, q) ==
    IF \/ BigCmp(BigSub(n, BigShl(q, corte)), BigShl(Big(1), corte - 1)) > 0
       \/ /\ BigCmp(BigSub(n, BigShl(q, corte)), BigShl(Big(1), corte - 1)) = 0
          /\ q[1] % 2 = 1
    THEN s * (BigInt(q) + 1)
    ELSE s * BigInt(q)

DecimosDe(s, n, e) ==
    IF e >= 0 THEN s * BigInt(BigShl(n, e))
    ELSE IF 0 - e > BigBits(n) + 1 THEN 0
    ELSE DecimosCorta(s, n, 0 - e, BigShr(n, 0 - e))

Round1(x) == DecimosDe(x.s, BigMulLimb(x.m, 10), x.e)

----------------------------------------------------------------------------
(* Cotacao.get_alerta_preco and analisar_alerta_preco *)

\* The REAL that is stored for a price: float() of its decimal notation,
\* which is the float nearest to centavos / 100.
PrecoFloat(centavos) == FDiv(FInt(centavos), FInt(100))

\* The quotations of a product, and of every product, by id.
DoProduto(cots, produto_id) == {c \in DOMAIN cots : cots[c].produto_id = produto_id}

\* sum of the prices of the rows ids, one row after the other
RECURSIVE SomaPrecos(_, _, _)
SomaPrecos(cots, ids, soma) ==
    IF ids = <<>> THEN soma
    ELSE IF soma = FZero THEN SomaPrecos(cots, Tail(ids), PrecoFloat(cots[Head(ids)].preco))
    ELSE SomaPrecos(cots, Tail(ids), FAdd(soma, PrecoFloat(cots[Head(ids)].preco)))

\* db.func.avg(Cotacao.preco) over the rows ids, "or 0": NULL without rows.
Avg(cots, ids) ==
    IF ids = {} THEN FZero
    ELSE FDiv(SomaPrecos(cots, Ascendente(ids), FZero), FInt(Cardinality(ids)))

AlertaNovo == [tipo |-> "normal", label |-> "Novo"]
AlertaBom == [tipo |-> "bom", label |-> "Preço Bom"]
AlertaAlto == [tipo |-> "alto", label |-> "Preço Alto"]
AlertaNormal == [tipo |-> "normal", label |-> "Normal"]

\* if percentual_diff < -10 ... elif percentual_diff > 15 ... else
Limites(percentual_diff) ==
    IF FLt(percentual_diff, FInt(0 - 10)) THEN AlertaBom
    ELSE IF FLt(FInt(15), percentual_diff) THEN AlertaAlto
    ELSE AlertaNormal

\* percentual_diff = ((preco - media_produto) / media_produto) * 100
PercentualDiff(preco, media_produto) ==
    FMul(FDiv(FSub(preco, media_produto), media_produto), FInt(100))

Alerta(preco, media_produto) ==
    IF media_produto = FZero THEN AlertaNovo
    ELSE Limites(PercentualDiff(preco, media_produto))

analisar_alerta_preco(cots, cotacao_atual) ==
    Alerta(PrecoFloat(cotacao_atual.preco), Avg(cots, DoProduto(cots, cotacao_atual.produto_id)))

get_alerta_preco(cots, id) ==
    Alerta(PrecoFloat(cots[id].preco), Avg(cots, DoProduto(cots, cots[id].produto_id)))

\* The alert of a stored quotation is rendered.
GetAlertaPreco(id) ==
    /\ id \in DOMAIN cotacoes
    /\ UNCHANGED bd
    /\ UNCHANGED web
    /\ ult' = Atendido("get_alerta_preco", [id |-> id], TRUE)
                @@ [alerta |-> get_alerta_preco(cotacoes, id)]

\* The alert of a quotation that need not be stored.
AnalisarAlertaPreco(preco, produto_id) ==
    /\ UNCHANGED bd
    /\ UNCHANGED web
    /\ ult' = Atendido("analisar_alerta_preco", [preco |-> preco, produto_id |-> produto_id], TRUE)
                @@ [alerta |-> analisar_alerta_preco(cotacoes,
                                  [preco |-> preco, produto_id |-> produto_id])]

----------------------------------------------------------------------------
(* ranking *)

\* A decimal literal of the source, such as 0.35: the float nearest to n / d.
Literal(n, d) == FDiv(FInt(n), FInt(d))

\* max(n, x) and min(n, x) for an integer n and a float x
FMaxInt(n, x) == IF FLt(FInt(n), x) THEN x ELSE FInt(n)
FMinInt(n, x) == IF FLt(x, FInt(n)) THEN x ELSE FInt(n)

\* Cotacao.query.filter_by(fornecedor_id=fornecedor.id)
DoFornecedor(cots, fornecedor_id) == {c \in DOMAIN cots : cots[c].fornecedor_id = fornecedor_id}

\* (mutant) a supplier is ranked whether it has quotations or not.
TemCotacoesSempre(cots, fornecedor_id) == TRUE

\* "if not cotacoes: continue"
TemCotacoes(cots, fornecedor_id) == DoFornecedor(cots, fornecedor_id) # {}

PrecosDe(cots, ids) == {cots[c].preco : c \in ids}

\* db.session.query(db.func.avg(Cotacao.preco)).scalar() or 0
TodosPrecos(cots) == Avg(cots, DOMAIN cots)

\* (mutant) the difference is taken relative to the supplier's own mean.
score_preco_sobre_media(preco_medio, todos_precos) ==
    IF FLt(FZero, todos_precos)
    THEN FMaxInt(0, FSub(FInt(10),
                         FMul(FDiv(FSub(preco_medio, todos_precos), preco_medio), FInt(10))))
    ELSE FInt(5)

score_preco(preco_medio, todos_precos) ==
    IF FLt(FZero, todos_precos)
    THEN FMaxInt(0, FSub(FInt(10),
                         FMul(FDiv(FSub(preco_medio, todos_precos), todos_precos), FInt(10))))
    ELSE FInt(5)

\* len(cotacoes) / max(1, Cotacao.query.count()) * 100
vitoria_rate(qtd, total) == FMul(FDiv(FInt(qtd), FInt(IF total < 1 THEN 1 ELSE total)), FInt(100))

score_confiabilidade(qtd, total) ==
    FMinInt(10, FAdd(FMul(FDiv(vitoria_rate(qtd, total), FInt(100)), FInt(10)), FInt(3)))

\* preco_max - preco_min
Variacao(precos) == FSub(PrecoFloat(Maximo(precos)), PrecoFloat(Minimo(precos)))

score_consistencia(qtd, precos, preco_medio) ==
    IF qtd > 1
    THEN FMaxInt(1, FSub(FInt(10), FMul(FDiv(Variacao(precos), preco_medio), FInt(5))))
    ELSE FInt(8)

score_total(preco, confiabilidade, consistencia) ==
    FAdd(FAdd(FMul(preco, Literal(4, 10)), FMul(confiabilidade, Literal(35, 100))),
         FMul(consistencia, Literal(25, 100)))

\* The entry of a supplier; the scores are round(score, 1), in tenths.
Entrada(fornecedor_id, qtd, precos, preco_medio, preco, confiabilidade, consistencia) ==
    [fornecedor |-> fornecedor_id,
     qtd_cotacoes |-> qtd,
     preco_medio |-> preco_medio,
     score_total |-> Round1(score_total(preco, confiabilidade, consistencia)),
     score_preco |-> Round1(preco),
     score_confiabilidade |-> Round1(confiabilidade),
     score_consistencia |-> Round1(consistencia),
     variacao_preco |-> IF qtd > 1 THEN Variacao(precos) ELSE FZero]

PontuaMedia(cots, fornecedor_id, ids, preco_medio) ==
    Entrada(fornecedor_id, Cardinality(ids), PrecosDe(cots, ids), preco_medio,
            score_preco(preco_medio, TodosPrecos(cots)),
            score_confiabilidade(Cardinality(ids), Cardinality(DOMAIN cots)),
            score_consistencia(Cardinality(ids), PrecosDe(cots, ids), preco_medio))

\* preco_medio = sum(c.preco for c in cotacoes) / len(cotacoes)
Pontua(cots, fornecedor_id, ids) == PontuaMedia(cots, fornecedor_id, ids, Avg(cots, ids))

\* (mutant) a supplier is scored on the quotations of the suppliers that
\* are not scored yet.
RECURSIVE RankingDataRestantes(_, _)
RankingDataRestantes(cots, forns) ==
    IF forns = <<>> THEN <<>>
    ELSE IF ~TemCotacoes(cots, Head(forns)) THEN RankingDataRestantes(cots, Tail(forns))
    ELSE <<Pontua([c \in {d \in DOMAIN cots : \E i \in 1..Len(forns) : cots[d].fornecedor_id = forns[i]}
                     |-> cots[c]],
                  Head(forns), DoFornecedor(cots, Head(forns)))>>
             \o RankingDataRestantes(cots, Tail(forns))

\* The loop over the suppliers, in the order in which the query gives them.
RECURSIVE RankingData(_, _)
RankingData(cots, forns) ==
    IF forns = <<>> THEN <<>>
    ELSE IF ~TemCotacoes(cots, Head(forns)) THEN RankingData(cots, Tail(forns))
    ELSE <<Pontua(cots, Head(forns), DoFornecedor(cots, Head(forns)))>>
             \o RankingData(cots, Tail(forns))

\* ranking_data.sort(key=score_total, reverse=True): a stable sort.
RECURSIVE InsereScore(_, _)
InsereScore(ordenado, b) ==
    IF ordenado = <<>> THEN <<b>>
    ELSE IF Head(ordenado).score_total >= b.score_total
    THEN <<Head(ordenado)>> \o InsereScore(Tail(ordenado), b)
    ELSE <<b>> \o ordenado

RECURSIVE OrdenaScore(_)
OrdenaScore(ranking_data) ==
    IF ranking_data = <<>> THEN <<>>
    ELSE InsereScore(OrdenaScore(SubSeq(ranking_data, 1, Len(ranking_data) - 1)),
                     ranking_data[Len(ranking_data)])

\* The medals of the first three: medalhas[i] is written as i + 1.
RECURSIVE Medalhas(_, _)
Medalhas(ranking_data, i) ==
    IF ranking_data = <<>> THEN <<>>
    ELSE IF i <= 3
    THEN <<Head(ranking_data) @@ [medalha |-> i]>> \o Medalhas(Tail(ranking_data), i + 1)
    ELSE ranking_data

\* The list that is rendered.
RankingRendido(cots, forns) == Medalhas(OrdenaScore(RankingData(cots, forns)), 1)

\* GET /ranking; ordem is the order in which the query gives the suppliers.
Ranking(ordem) ==
    /\ UNCHANGED bd
    /\ UNCHANGED web
    /\ ult' = Atendido("ranking", [ordem |-> ordem], TRUE)
                @@ [ranking_data |-> RankingRendido(cotacoes, ordem)]

----------------------------------------------------------------------------
(* The alerts and the ranking on stored quotations *)

\* Bound: the highest id of the stored quotations that are analysed.
MaxHist == 3

\* Stored prices, in centavos: 0.25, 0.75 and 1.50 (0.75 is 10% below
\* their mean), 4.25 and 5.75 (5.75 is 15% above their mean).
PrecosAlerta == {25, 75, 150, 425, 575}
PrecosRanking == {25, 75, 150}

\* Prices of a quotation that is not stored.
PrecosAvulsos == {75, 575}

\* The quotations 1..k that realizar_cotacao stored for the request 1, one
\* after the other, with the prices p and the suppliers f.
Historico(k, precos, forns) ==
    {[i \in 1..k |-> [preco |-> p[i], produto_id |-> CodigoPadrao,
                      fornecedor_id |-> f[i], requisicao_origem_id |-> 1]] :
        p \in [1..k -> precos], f \in [1..k -> forns]}

Historicos(precos, forns) == UNION {Historico(k, precos, forns) : k \in 0..MaxHist}

\* The request 1 once it is quoted.
Cotada == <<[produto_id |-> CodigoPadrao, quantidade |-> 1, status |-> "Cotado",
             forns |-> 1..MaxForn]>>

InitHistorico(precos, forns) ==
    /\ produtos = {CodigoPadrao}
    /\ fornecedores = 1..MaxForn
    /\ cotacoes \in Historicos(precos, forns)
    /\ requisicoes = IF cotacoes = <<>> THEN SemLinhas ELSE Cotada
    /\ ult = Ocioso
    /\ usuarios = Entrou(UsuariosPadrao, 1)
    /\ session = SessaoDe(UsuariosPadrao, 1)

InitAlerta == InitHistorico(PrecosAlerta, {1})

NextAlerta ==
    \/ /\ ult = Ocioso
       /\ \/ \E id \in 1..MaxHist : GetAlertaPreco(id)
          \/ \E preco \in PrecosAvulsos, p \in ProdutosForm : AnalisarAlertaPreco(preco, p)
    \/ Responde

SpecAlerta == InitAlerta /\ [][NextAlerta]_vars

InitRanking == InitHistorico(PrecosRanking, 1..MaxForn)

NextRanking ==
    \/ /\ ult = Ocioso
       /\ \E ordem \in Perms(Ativos(fornecedores)) : Ranking(ordem)
    \/ Responde

SpecRanking == InitRanking /\ [][NextRanking]_vars

\* The ranking on prices that are far apart: 0.01 and 10000.00.
PrecosExtremos == {1, 1000000}

InitExtremos == InitHistorico(PrecosExtremos, 1..MaxForn)

SpecExtremos == InitExtremos /\ [][NextRanking]_vars

----------------------------------------------------------------------------
(* mapa_cotacao on prices whose sums are rounded *)

\* resultados[vencedor_id]['total'] += menor_preco * req.quantidade: the
\* float that the lines itens, added in their order, leave in total.
RECURSIVE TotalFloat(_, _)
TotalFloat(itens, total) ==
    IF itens = <<>> THEN total
    ELSE TotalFloat(Tail(itens),
                    FAdd(total, FMul(PrecoFloat(Head(itens).preco), FInt(Head(itens).quantidade))))

\* Bound: the highest id of the requests of these batches.
MaxLote == 3

\* Submitted price strings: blank, "0,10", "0,20" and "0,30".
LanceDez == <<"0", ",", "1", "0">>
LanceVinte == <<"0", ",", "2", "0">>
LanceTrinta == <<"0", ",", "3", "0">>
LancesTroco == {LanceVazio, LanceDez, LanceVinte, LanceTrinta}

\* The requests 1..MaxLote as requisicoes POST stores them for the supplier
\* 1, with the quantities q.
PedidosTroco ==
    {[r \in 1..MaxLote |-> [produto_id |-> CodigoPadrao, quantidade |-> q[r],
                            status |-> "Pendente", forns |-> {1}]] :
        q \in [1..MaxLote -> {1, 3}]}

InitTroco ==
    /\ produtos = {CodigoPadrao}
    /\ fornecedores = 1..MaxForn
    /\ requisicoes \in PedidosTroco
    /\ cotacoes = SemLinhas
    /\ ult = Ocioso
    /\ usuarios = Entrou(UsuariosPadrao, 1)
    /\ session = SessaoDe(UsuariosPadrao, 1)

\* The forms with the fields of the supplier 1.
FormsTroco == [(1..MaxLote) \X {1} -> LancesTroco]

NextTroco ==
    \/ /\ ult = Ocioso
       /\ \E form \in FormsTroco, ordem \in Perms(fornecedores) :
             MapaCotacaoAte(MaxLote, form, ordem, 0)
    \/ Responde

SpecTroco == InitTroco /\ [][NextTroco]_vars

----------------------------------------------------------------------------
(* mapa_cotacao POST answered by several threads of the server *)

\* Bound: the batch requests that are answered at the same time.
MaxThreads == 2
Threads == 1..MaxThreads

\* In this specification ult holds the batch requests being answered, one
\* for each thread: not started, with its pending requests read, or over.
Parado == [pc |-> "inicio"]
LotesParados == [op |-> "lotes", lotes |-> [t \in Threads |-> Parado]]

\* One or two pending requests of quantity 1, with the candidates forns.
PedidosPendentes ==
    UNION {[1..k -> [produto_id : {CodigoPadrao}, quantidade : {1}, status : {"Pendente"},
                     forns : {{}, {1}}]] : k \in 1..MaxReq}

InitThreads ==
    /\ produtos = {CodigoPadrao}
    /\ fornecedores = 1..MaxForn
    /\ requisicoes \in PedidosPendentes
    /\ cotacoes = SemLinhas
    /\ ult = LotesParados
    /\ usuarios = Entrou(UsuariosPadrao, 1)
    /\ session = SessaoDe(UsuariosPadrao, 1)

\* pendentes = Requisicao.query.filter_by(status='Pendente').all(), and the
\* redirect when there is none.
LeLote(t, form, ordem) ==
    /\ ult.lotes[t].pc = "inicio"
    /\ UNCHANGED bd
    /\ UNCHANGED web
    /\ ult' = [ult EXCEPT !.lotes[t] =
                  [pc |-> IF Pendentes(requisicoes) = {} THEN "fim" ELSE "lido",
                   pendentes |-> Ascendente(Pendentes(requisicoes)),
                   form |-> form, ordem |-> ordem]]

\* (mutant) the loop skips a request that is no longer pending.
LidasAindaPendentes(pendentes, reqs) == Filtra(pendentes, Pendentes(reqs))

\* "for req in pendentes": the loop goes through the requests that the
\* query gave, whatever has been committed since.
Lidas(pendentes, reqs) == pendentes

GravaThread(t, sessao) ==
    /\ requisicoes' = sessao.requisicoes
    /\ cotacoes' = sessao.cotacoes
    /\ UNCHANGED <<produtos, fornecedores>>
    /\ UNCHANGED web
    /\ ult' = [ult EXCEPT !.lotes[t].pc = "fim"]

\* The loop and db.session.commit() of the thread t.
GravaLote(t) ==
    /\ ult.lotes[t].pc = "lido"
    /\ GravaThread(t, Lote(Lidas(ult.lotes[t].pendentes, requisicoes), Sessao, fornecedores,
                           ult.lotes[t].form, ult.lotes[t].ordem))

NextThreads ==
    \/ \E t \in Threads, form \in Forms(LancesMapaCiclo), ordem \in Perms(fornecedores) :
          LeLote(t, form, ordem)
    \/ \E t \in Threads : GravaLote(t)

SpecThreads == InitThreads /\ [][NextThreads]_vars

----------------------------------------------------------------------------
(* mapa_cotacao POST on requests whose selected suppliers have been deleted *)

\* The suppliers selected in selecionar_fornecedores for every request.
SelecaoInicial == {1}

\* The requests selecionar_fornecedores has created with that selection.
PedidosSelecao ==
    {[r \in 1..k |-> [produto_id |-> CodigoPadrao, quantidade |-> 2,
                      status |-> "Pendente", forns |-> SelecaoInicial]] : k \in 1..MaxReq}

InitSelecao ==
    /\ produtos = {CodigoPadrao}
    /\ fornecedores = 1..MaxForn
    /\ requisicoes \in PedidosSelecao
    /\ cotacoes = SemLinhas
    /\ ult = Ocioso
    /\ usuarios = Entrou(UsuariosPadrao, 1)
    /\ session = SessaoDe(UsuariosPadrao, 1)

\* Suppliers are deleted, and the batch is run, on the requests created.
NextSelecao ==
    \/ /\ ult = Ocioso
       /\ \/ \E id \in 1..MaxForn : DeletarFornecedor(id)
          \/ \E form \in Forms(LancesCiclo), ordem \in Perms(fornecedores), falha \in Falhas :
                MapaCotacao(form, ordem, falha)
    \/ Responde

SpecSelecao == InitSelecao /\ [][NextSelecao]_vars

----------------------------------------------------------------------------
(* login, logout, admin_criar_usuario and the handlers behind              *)
(* login_obrigatorio, requested by a client that starts without a session  *)

MaxUsuarios == 2

Ana == <<"a", "n", "a">>
EmailAna == <<"a", "@", "t">>
SenhaAna == <<"s", "e", "g", "r", "e", "d", "o">>
SenhaCurta == <<"a", "b", "c">>

UsernamesForm == {<<>>, Admin, Ana, <<" ">> \o Ana}
EmailsForm == {<<>>, EmailAdmin, EmailAna}
SenhasForm == {<<>>, SenhaCurta, SenhaAdmin, SenhaAna}
NomesCompletosForm == {<<>>}

\* Usuario.query.filter_by(...).first() on a column that is unique.
ComUsername(usrs, username) == {u \in DOMAIN usrs : usrs[u].username = username}
ComEmail(usrs, email) == {u \in DOMAIN usrs : usrs[u].email = email}

\* usuario and usuario.verifica_senha(senha) and usuario.ativo
Autentica(usrs, username, senha) ==
    {u \in ComUsername(usrs, username) : usrs[u].senha = senha /\ usrs[u].ativo}

Login(username_form, senha) ==
    LET username == Strip(username_form)
        pedido == [username |-> username_form, senha |-> senha]
    IN IF \/ "usuario_id" \in DOMAIN session
          \/ username = <<>>
          \/ senha = <<>>
          \/ Autentica(usuarios, username, senha) = {}
       THEN /\ UNCHANGED <<bd, usuarios, session>>
            /\ ult' = Atendido("login", pedido, FALSE)
       ELSE LET id == CHOOSE u \in Autentica(usuarios, username, senha) : TRUE
            IN /\ usuarios' = Entrou(usuarios, id)
               /\ session' = SessaoDe(usuarios, id)
               /\ UNCHANGED bd
               /\ ult' = Atendido("login", pedido, TRUE)

\* session.clear()
Logout ==
    /\ session' = SemSessao
    /\ UNCHANGED <<bd, usuarios>>
    /\ ult' = Atendido("logout", <<>>, TRUE)

\* admin_criar_usuario POST: the route has no login_obrigatorio.
AdminCriarUsuario(username_form, email_form, senha, nome_form) ==
    LET username == Strip(username_form)
        email == Strip(email_form)
        nome_completo == Strip(nome_form)
        pedido == [username |-> username_form, email |-> email_form, senha |-> senha,
                   nome_completo |-> nome_form]
    IN IF \/ username = <<>> \/ email = <<>> \/ senha = <<>>
          \/ Len(senha) < 6
          \/ ComUsername(usuarios, username) # {}
          \/ ComEmail(usuarios, email) # {}
       THEN /\ UNCHANGED <<bd, usuarios, session>>
            /\ ult' = Atendido("admin_criar_usuario", pedido, FALSE)
       ELSE /\ NovoId(DOMAIN usuarios) <= MaxUsuarios
            /\ usuarios' = ComLinha(usuarios,
                                    [username |-> username, email |-> email, senha |-> senha,
                                     nome_completo |-> IF nome_completo # <<>> THEN nome_completo
                                                       ELSE username,
                                     ativo |-> TRUE, ultimo_acesso |-> 0])
            /\ UNCHANGED <<bd, session>>
            /\ ult' = Atendido("admin_criar_usuario", pedido, TRUE)

\* The decorator: without usuario_id in the session the request is sent to
\* the login page and f is not entered.
login_obrigatorio(f) ==
    IF "usuario_id" \notin DOMAIN session
    THEN /\ UNCHANGED <<bd, usuarios, session>>
         /\ ult' = Atendido("login_obrigatorio", <<>>, FALSE)
    ELSE f

\* The application as it starts, and a client without a session.
InitSessao ==
    /\ produtos = {CodigoPadrao}
    /\ fornecedores = 1..MaxForn
    /\ requisicoes = SemLinhas
    /\ cotacoes = SemLinhas
    /\ ult = Ocioso
    /\ usuarios = UsuariosPadrao
    /\ session = SemSessao

NextSessao ==
    \/ /\ ult = Ocioso
       /\ \/ \E u \in UsernamesForm, s \in SenhasForm : Login(u, s)
          \/ Logout
          \/ \E u \in UsernamesForm, e \in EmailsForm, s \in SenhasForm, n \in NomesCompletosForm :
                AdminCriarUsuario(u, e, s, n)
          \/ login_obrigatorio(Requisicoes(CodigoPadrao, 2, {}))
          \/ login_obrigatorio(SelecionarFornecedores(CodigoPadrao, 2, {1}))
          \/ \E id \in 1..MaxReq : login_obrigatorio(RemoverRequisicao(id))
          \/ \E id \in 1..MaxReq : login_obrigatorio(RealizarCotacao(id, 1, LanceVirgula))
          \/ \E form \in Forms({LanceVirgula}) :
                login_obrigatorio(MapaCotacao(form, Ascendente(fornecedores), 0))
          \/ \E id \in 1..MaxCot : login_obrigatorio(DeletarCotacaoFinal(id))
          \/ login_obrigatorio(Fornecedores)
          \/ \E id \in 1..MaxForn : login_obrigatorio(DeletarFornecedor(id))
          \/ \E c \in CodigosForm, n \in NomesForm : login_obrigatorio(Produtos(c, n))
          \/ \E id \in ProdutosForm : login_obrigatorio(DeletarProduto(id))
    \/ Responde

SpecSessao == InitSessao /\ [][NextSessao]_vars

----------------------------------------------------------------------------
(* Properties.  They are stated on the states in which a request has just   *)
(* been handled: ult holds its form and the rows it found (ult.antes), the *)
(* stored rows are those it left.                                          *)

Status == {"Pendente", "Cotado", "Processado"}

\* A batch allocation that went through.
LoteFeito == ult.op = "mapa_cotacao" /\ ult.ok

\* The requests the batch found pending.
PendentesAntes == Pendentes(ult.antes.requisicoes)

\* The candidate suppliers of a request the batch found: its selected
\* suppliers, every active supplier when it has none.
Candidatos(r) ==
    IF ult.antes.requisicoes[r].forns # {} THEN ult.antes.requisicoes[r].forns
    ELSE Ativos(ult.antes.fornecedores)

\* The submitted bid of supplier f for request r, and whether it is valid:
\* present, parseable and greater than 0.
Lance(r, f) == Strip(Campo(ult.pedido.form, r, f))
LanceValido(r, f) == Lance(r, f) # <<>> /\ parse_moeda(Lance(r, f)).ok /\ parse_moeda(Lance(r, f)).v > 0
ValorLance(r, f) == parse_moeda(Lance(r, f)).v

\* The candidates of r with a valid bid, and their bids.
Licitantes(r) == {f \in Candidatos(r) : LanceValido(r, f)}
PrecosValidos(r) == {ValorLance(r, f) : f \in Licitantes(r)}

\* The quotations the handled request created, and those it created for r.
Novas == DOMAIN cotacoes \ DOMAIN ult.antes.cotacoes
NovasDe(r) == {c \in Novas : cotacoes[c].requisicao_origem_id = r}

\* The lines of the report that come from request r.
LinhasDe(r) ==
    {<<i, j>> \in (1..Len(ult.relatorio)) \X (1..MaxReq) :
        /\ j <= Len(ult.relatorio[i].itens)
        /\ ult.relatorio[i].itens[j].requisicao = r}

\* C1: in a batch allocation, the quotation created for a pending request
\* names a candidate of the request whose bid is valid, at the price of that
\* bid, which is the lowest valid bid of the request's candidates; a request
\* with a valid bid from a candidate gets a quotation.  So a bid that is
\* blank, unparseable or not greater than 0, and the bid of a supplier that
\* is not a candidate, never wins.
C1_MenorLanceVence ==
    LoteFeito =>
        \A r \in PendentesAntes :
            /\ Licitantes(r) # {} => NovasDe(r) # {}
            /\ \A c \in NovasDe(r) :
                  /\ cotacoes[c].fornecedor_id \in Licitantes(r)
                  /\ cotacoes[c].preco = ValorLance(r, cotacoes[c].fornecedor_id)
                  /\ cotacoes[c].preco = Minimo(PrecosValidos(r))

\* A batch in which a supplier that is not a candidate bid less than the
\* only candidate, and the candidate won.
C1_Witness ==
    /\ LoteFeito
    /\ \E r \in PendentesAntes, f \in ult.antes.fornecedores :
          /\ f \notin Candidatos(r)
          /\ Licitantes(r) # {}
          /\ Lance(r, f) = LanceVirgula
          /\ \A g \in Licitantes(r) : ValorLance(r, g) > parse_moeda(LanceVirgula).v
          /\ NovasDe(r) # {}

\* C2: for every pending request with a valid bid, a batch that goes
\* through creates exactly one quotation; it has the request's product, the
\* winner as supplier, the lowest valid bid as price and the request as
\* origin; the request is Processado afterwards.
C2_UmaCotacaoPorRequisicao ==
    LoteFeito =>
        /\ \A c \in Novas : cotacoes[c].requisicao_origem_id \in PendentesAntes
        /\ \A r \in PendentesAntes :
              Licitantes(r) # {} =>
                  /\ Cardinality(NovasDe(r)) = 1
                  /\ \A c \in NovasDe(r) :
                        /\ cotacoes[c].produto_id = ult.antes.requisicoes[r].produto_id
                        /\ cotacoes[c].fornecedor_id \in Licitantes(r)
                        /\ cotacoes[c].preco = Minimo(PrecosValidos(r))
                  /\ r \in DOMAIN requisicoes
                  /\ requisicoes[r].status = "Processado"

\* A batch over two pending requests, each with a valid bid.
C2_Witness ==
    /\ LoteFeito
    /\ Cardinality({r \in PendentesAntes : Licitantes(r) # {}}) = 2
    /\ Cardinality(Novas) = 2

\* C3: a request that the batch finds pending and that has no valid bid from
\* any candidate gets no quotation and no line in the report; the batch goes
\* through all the same and leaves the request Processado.
C3_SemLanceValido ==
    /\ (ult.op = "mapa_cotacao" /\ ult.pedido.falha = 0 /\ PendentesAntes # {}) => ult.ok
    /\ LoteFeito =>
          \A r \in PendentesAntes :
              Licitantes(r) = {} =>
                  /\ NovasDe(r) = {}
                  /\ LinhasDe(r) = {}
                  /\ r \in DOMAIN requisicoes
                  /\ requisicoes[r].status = "Processado"

\* A batch with a request whose candidates bid "0" and "x", and a request
\* for which no field was submitted.
C3_Witness ==
    /\ LoteFeito
    /\ \E r \in PendentesAntes :
          /\ Licitantes(r) = {}
          /\ \E f, g \in Candidatos(r) : Lance(r, f) = LanceZero /\ Lance(r, g) = LanceLetra
    /\ \E r \in PendentesAntes :
          \A f \in ult.antes.fornecedores : <<r, f>> \notin DOMAIN ult.pedido.form

\* The candidates of r in the order in which the batch went through them.
ListaDe(r) == Filtra(ult.pedido.ordem, Candidatos(r))

\* C4: the winner of a request is the first candidate, in the order in which
\* the candidates are gone through, that bid the lowest valid price: no
\* candidate before the winner has a valid bid as low as the winner's.
C4_EmpateVaiAoPrimeiro ==
    LoteFeito =>
        \A r \in PendentesAntes :
            \A c \in NovasDe(r) :
                \A i, j \in 1..Len(ListaDe(r)) :
                    (ListaDe(r)[i] = cotacoes[c].fornecedor_id /\ j < i) =>
                        ~(LanceValido(r, ListaDe(r)[j])
                            /\ ValorLance(r, ListaDe(r)[j]) <= cotacoes[c].preco)

\* A batch in which both candidates of a request bid the same valid price,
\* the supplier of the higher id was gone through first, and it won.
C4_Witness ==
    /\ LoteFeito
    /\ \E r \in PendentesAntes :
          /\ Candidatos(r) = {1, 2}
          /\ LanceValido(r, 1) /\ Lance(r, 1) = Lance(r, 2)
          /\ ListaDe(r) = <<2, 1>>
          /\ \E c \in NovasDe(r) : cotacoes[c].fornecedor_id = 2

\* C5: a batch that fails, while going through a request or at the commit,
\* leaves the stored rows as it found them: every request it found pending
\* is still pending and the quotations are the same.
C5_FalhaNadaPersiste ==
    (ult.op = "mapa_cotacao" /\ ult.pedido.falha # 0) =>
        /\ ~ult.ok
        /\ requisicoes = ult.antes.requisicoes
        /\ cotacoes = ult.antes.cotacoes
        /\ \A r \in PendentesAntes : requisicoes[r].status = "Pendente"

\* A batch over two pending requests that failed after it had gone through
\* the first one, which had a valid bid.
C5_Witness ==
    /\ ult.op = "mapa_cotacao"
    /\ ult.pedido.falha = 2
    /\ Cardinality(PendentesAntes) = 2
    /\ Licitantes(Minimo(PendentesAntes)) # {}

\* C6: deleting a quotation whose origin is a request that exists puts the
\* request back to Pendente, whatever its status was.
C6_DeletarReabre ==
    (ult.op = "deletar_cotacao_final" /\ ult.ok) =>
        LET origem == ult.antes.cotacoes[ult.pedido.id].requisicao_origem_id
        IN origem \in DOMAIN ult.antes.requisicoes =>
              /\ origem \in DOMAIN requisicoes
              /\ requisicoes[origem].status = "Pendente"

\* The quotation of a request that a batch had left Processado was deleted.
C6_Witness ==
    /\ ult.op = "deletar_cotacao_final" /\ ult.ok
    /\ LET origem == ult.antes.cotacoes[ult.pedido.id].requisicao_origem_id
       IN /\ origem \in DOMAIN ult.antes.requisicoes
          /\ ult.antes.requisicoes[origem].status = "Processado"
          /\ requisicoes[origem].status = "Pendente"

\* C7: the status of a request is Pendente, Cotado or Processado, and a
\* handled request changes it only from Pendente to Cotado (realizar_cotacao),
\* from Pendente to Processado (mapa_cotacao) or back to Pendente
\* (deletar_cotacao_final); realizar_cotacao leaves the status of a request
\* that is Cotado or Processado as it is.
C7_TransicoesDeStatus ==
    /\ \A r \in DOMAIN requisicoes : requisicoes[r].status \in Status
    /\ ult # Ocioso =>
          \A r \in DOMAIN requisicoes \cap DOMAIN ult.antes.requisicoes :
              LET de == ult.antes.requisicoes[r].status
                  para == requisicoes[r].status
              IN \/ de = para
                 \/ de = "Pendente" /\ para = "Cotado" /\ ult.op = "realizar_cotacao"
                 \/ de = "Pendente" /\ para = "Processado" /\ ult.op = "mapa_cotacao"
                 \/ para = "Pendente" /\ ult.op = "deletar_cotacao_final"

\* C8: remover_requisicao removes a request only while it is Pendente.
C8_RemoveSoPendente ==
    (ult.op = "remover_requisicao" /\ ult.ok) =>
        ult.antes.requisicoes[ult.pedido.id].status = "Pendente"

\* C9: every quotation references a product that exists and a supplier that
\* exists.
C9_CotacaoReferenciaValida ==
    \A c \in DOMAIN cotacoes :
        /\ cotacoes[c].produto_id \in produtos
        /\ cotacoes[c].fornecedor_id \in fornecedores

\* C10: deleting a supplier that a quotation references is refused and
\* changes nothing: the suppliers, the quotations and the requests with
\* their candidate sets are as before.
C10_FornecedorComHistorico ==
    (ult.op = "deletar_fornecedor"
        /\ \E c \in DOMAIN ult.antes.cotacoes :
              ult.antes.cotacoes[c].fornecedor_id = ult.pedido.id) =>
        /\ ~ult.ok
        /\ fornecedores = ult.antes.fornecedores
        /\ cotacoes = ult.antes.cotacoes
        /\ requisicoes = ult.antes.requisicoes
        /\ produtos = ult.antes.produtos

\* The deletion of a stored supplier with a quotation, which is in the
\* candidate set of a request, was asked for.
C10_Witness ==
    /\ ult.op = "deletar_fornecedor"
    /\ ult.pedido.id \in ult.antes.fornecedores
    /\ \E c \in DOMAIN ult.antes.cotacoes : ult.antes.cotacoes[c].fornecedor_id = ult.pedido.id
    /\ \E r \in DOMAIN requisicoes : ult.pedido.id \in requisicoes[r].forns

\* C11: deleting a product that a quotation or a request references is
\* refused and changes nothing; a deletion that goes through removes the
\* product alone, and no quotation or request referenced it.
C11_ProdutoComHistorico ==
    /\ (ult.op = "deletar_produto"
          /\ \/ \E c \in DOMAIN ult.antes.cotacoes :
                   ult.antes.cotacoes[c].produto_id = ult.pedido.id
             \/ \E r \in DOMAIN ult.antes.requisicoes :
                   ult.antes.requisicoes[r].produto_id = ult.pedido.id) =>
          /\ ~ult.ok
          /\ produtos = ult.antes.produtos
          /\ cotacoes = ult.antes.cotacoes
          /\ requisicoes = ult.antes.requisicoes
          /\ fornecedores = ult.antes.fornecedores
    /\ (ult.op = "deletar_produto" /\ ult.ok) =>
          /\ produtos = ult.antes.produtos \ {ult.pedido.id}
          /\ cotacoes = ult.antes.cotacoes
          /\ requisicoes = ult.antes.requisicoes
          /\ \A c \in DOMAIN cotacoes : cotacoes[c].produto_id # ult.pedido.id
          /\ \A r \in DOMAIN requisicoes : requisicoes[r].produto_id # ult.pedido.id

\* The deletion of a stored product was asked for when its request had been
\* removed and a quotation still referenced it.
C11_Witness ==
    /\ ult.op = "deletar_produto"
    /\ ult.pedido.id \in ult.antes.produtos
    /\ \E c \in DOMAIN cotacoes : cotacoes[c].produto_id = ult.pedido.id
    /\ \A r \in DOMAIN requisicoes : requisicoes[r].produto_id # ult.pedido.id
    /\ ~ult.ok

\* C12: every stored request has a quantity of at least 1.
C12_QuantidadePositiva ==
    \A r \in DOMAIN requisicoes : requisicoes[r].quantidade >= 1

\* The request a handler has just created.
Criada == DOMAIN requisicoes \ DOMAIN ult.antes.requisicoes
CriouRequisicao == ult.op \in {"requisicoes", "selecionar_fornecedores"} /\ ult.ok

NadaMudou ==
    /\ produtos = ult.antes.produtos
    /\ fornecedores = ult.antes.fornecedores
    /\ requisicoes = ult.antes.requisicoes
    /\ cotacoes = ult.antes.cotacoes

\* A submitted product code that is a number greater than zero.
CodigoBom(c) == c # <<>> /\ (\A i \in 1..Len(c) : c[i] \in Digitos) /\ ValorInteiro(c) > 0

\* C14: realizar_cotacao with no supplier, or with a price that cannot be
\* parsed or is not greater than 0, is refused and changes nothing: no
\* quotation is created and the request keeps its status.  produtos with a
\* code that is missing, not a number, not greater than 0 or already in use
\* is refused and changes nothing: no product is created.
C14_RejeitadoNadaMuda ==
    /\ (ult.op = "realizar_cotacao"
          /\ \/ ult.pedido.fornecedor_id = 0
             \/ ~parse_moeda(ult.pedido.preco_str).ok
             \/ parse_moeda(ult.pedido.preco_str).v <= 0) =>
          ~ult.ok /\ NadaMudou
    /\ (ult.op = "produtos"
          /\ \/ ~CodigoBom(ult.pedido.id_prod)
             \/ ValorInteiro(ult.pedido.id_prod) \in ult.antes.produtos) =>
          ~ult.ok /\ NadaMudou

\* An individual quotation with a supplier and the price "0" was asked for
\* on a request that was pending, and the request is still pending.
C14_Witness ==
    /\ ult.op = "realizar_cotacao"
    /\ ult.pedido.fornecedor_id # 0
    /\ ult.pedido.preco_str = LanceZero
    /\ ult.pedido.req_id \in DOMAIN ult.antes.requisicoes
    /\ ult.antes.requisicoes[ult.pedido.req_id].status = "Pendente"
    /\ requisicoes[ult.pedido.req_id].status = "Pendente"
    /\ ~ult.ok

\* The sum of the subtotals of the lines of a bucket.
RECURSIVE SomaSubtotais(_)
SomaSubtotais(itens) ==
    IF itens = <<>> THEN 0 ELSE itens[1].subtotal + SomaSubtotais(Tail(itens))

\* C15: in the report of a batch, each request that got a winner is exactly
\* one line, which is in the bucket of the winner and carries the winning
\* price, the requested quantity and their product as subtotal; a request
\* without a winner is no line; the total of each bucket is the sum of the
\* subtotals of its lines.
C15_LinhasDoRelatorio ==
    LoteFeito =>
        /\ \A r \in PendentesAntes :
              /\ NovasDe(r) = {} => LinhasDe(r) = {}
              /\ NovasDe(r) # {} =>
                    /\ Cardinality(LinhasDe(r)) = 1
                    /\ \A l \in LinhasDe(r), c \in NovasDe(r) :
                          LET item == ult.relatorio[l[1]].itens[l[2]]
                          IN /\ ult.relatorio[l[1]].fornecedor = cotacoes[c].fornecedor_id
                             /\ item.preco = cotacoes[c].preco
                             /\ item.quantidade = ult.antes.requisicoes[r].quantidade
                             /\ item.subtotal = cotacoes[c].preco * ult.antes.requisicoes[r].quantidade
        /\ \A i \in 1..Len(ult.relatorio) :
              /\ ult.relatorio[i].total = SomaSubtotais(ult.relatorio[i].itens)
              /\ \A j \in 1..Len(ult.relatorio[i].itens) :
                    ult.relatorio[i].itens[j].requisicao \in PendentesAntes

\* A batch in which one supplier won two requests of quantity 2, at
\* different prices.
C15_Witness ==
    /\ LoteFeito
    /\ Len(ult.relatorio) = 1
    /\ Len(ult.relatorio[1].itens) = 2
    /\ ult.relatorio[1].itens[1].quantidade = 2
    /\ ult.relatorio[1].itens[2].quantidade = 2
    /\ ult.relatorio[1].itens[1].preco # ult.relatorio[1].itens[2].preco
    /\ ult.relatorio[1].total > 0

\* C16: the groups of the report of a batch are the suppliers that won a
\* request in it, one group for each, from the highest total to the lowest.
C16_GruposDoRelatorio ==
    LoteFeito =>
        /\ {ult.relatorio[i].fornecedor : i \in 1..Len(ult.relatorio)}
              = {cotacoes[c].fornecedor_id : c \in Novas}
        /\ \A i, j \in 1..Len(ult.relatorio) :
              /\ i # j => ult.relatorio[i].fornecedor # ult.relatorio[j].fornecedor
              /\ i < j => ult.relatorio[i].total >= ult.relatorio[j].total

\* A batch in which the winner of the second request has the higher total
\* and comes first in the report.
C16_Witness ==
    /\ LoteFeito
    /\ Len(ult.relatorio) = 2
    /\ ult.relatorio[1].total > ult.relatorio[2].total
    /\ ult.relatorio[1].itens[1].requisicao > ult.relatorio[2].itens[1].requisicao

\* An alert has just been computed: the quotation it is about, stored or
\* not, and the stored quotations of its product.
AlertaFeito == ult.op \in {"get_alerta_preco", "analisar_alerta_preco"}

CotacaoDoAlerta ==
    IF ult.op = "get_alerta_preco" THEN cotacoes[ult.pedido.id]
    ELSE [preco |-> ult.pedido.preco, produto_id |-> ult.pedido.produto_id]

HistoricoDoAlerta == DoProduto(cotacoes, CotacaoDoAlerta.produto_id)

RECURSIVE SomaCentavos(_)
SomaCentavos(ids) ==
    IF ids = {} THEN 0
    ELSE cotacoes[Maximo(ids)].preco + SomaCentavos(ids \ {Maximo(ids)})

\* The class of a price against the arithmetic mean soma / n of n prices:
\* its difference from the mean, in hundredths of the mean, is
\* (preco * n - soma) * 100 / soma.
TipoExato(preco, n, soma) ==
    IF (preco * n - soma) * 100 < (0 - 10) * soma THEN "bom"
    ELSE IF (preco * n - soma) * 100 > 15 * soma THEN "alto"
    ELSE "normal"

\* C17: the alert of a quotation whose product has stored quotations is
\* "bom" when its price is more than 10% below the arithmetic mean of their
\* prices, "alto" when it is more than 15% above it and "normal" otherwise:
\* a price exactly 10% below or exactly 15% above the mean is "normal".
C17_LimitesExatos ==
    (AlertaFeito /\ HistoricoDoAlerta # {}) =>
        ult.alerta.tipo = TipoExato(CotacaoDoAlerta.preco, Cardinality(HistoricoDoAlerta),
                                    SomaCentavos(HistoricoDoAlerta))

\* C18: the alert of a quotation whose product has no stored quotation has
\* a kind of its own, which is none of "normal", "bom" and "alto".
C18_NovoSemHistorico ==
    (AlertaFeito /\ HistoricoDoAlerta = {}) => ult.alerta.tipo \notin {"normal", "bom", "alto"}

\* The ranking has just been rendered.
RankingFeito == ult.op = "ranking"

\* The suppliers of the entries of a ranking, and the score of each.
Listados(ranking_data) == {ranking_data[i].fornecedor : i \in 1..Len(ranking_data)}
Scores(ranking_data) ==
    {<<ranking_data[i].fornecedor, ranking_data[i].score_total>> : i \in 1..Len(ranking_data)}

\* C19: the ranking has one entry for each active supplier with at least
\* one stored quotation, and none for a supplier without quotations.
C19_RankingSoComCotacoes ==
    RankingFeito =>
        /\ Listados(ult.ranking_data)
              = {f \in Ativos(fornecedores) : \E c \in DOMAIN cotacoes : cotacoes[c].fornecedor_id = f}
        /\ \A i, j \in 1..Len(ult.ranking_data) :
              ult.ranking_data[i].fornecedor = ult.ranking_data[j].fornecedor => i = j
        /\ \A i \in 1..Len(ult.ranking_data) : ult.ranking_data[i].qtd_cotacoes >= 1

\* A ranking of one supplier, while another active supplier has no quotation.
C19_Witness ==
    /\ RankingFeito
    /\ Len(ult.ranking_data) = 1
    /\ Cardinality(Ativos(fornecedores)) = 2
    /\ cotacoes # <<>>

\* C20: the ranking leaves the stored rows as they were; the score of each
\* supplier is the same in whatever order the suppliers are evaluated; and
\* the ranking of the rows it left, in the same order of evaluation, is the
\* same list.
C20_RankingEstavel ==
    RankingFeito =>
        /\ bd = <<ult.antes.produtos, ult.antes.fornecedores,
                  ult.antes.requisicoes, ult.antes.cotacoes>>
        /\ \A ordem \in Perms(Ativos(fornecedores)) :
              Scores(RankingRendido(cotacoes, ordem)) = Scores(ult.ranking_data)
        /\ RankingRendido(cotacoes, ult.pedido.ordem) = ult.ranking_data

\* A ranking of two suppliers with different scores in which the supplier
\* that was evaluated last comes first.
C20_Witness ==
    /\ RankingFeito
    /\ Len(ult.ranking_data) = 2
    /\ ult.ranking_data[1].score_total > ult.ranking_data[2].score_total
    /\ ult.ranking_data[1].fornecedor = ult.pedido.ordem[2]

\* C21: the total score of every entry of the ranking is between 0 and 10
\* (0 and 100 tenths).
C21_TotalDeZeroADez ==
    RankingFeito =>
        \A i \in 1..Len(ult.ranking_data) :
            /\ ult.ranking_data[i].score_total >= 0
            /\ ult.ranking_data[i].score_total <= 100

\* The price score of a supplier on the stored quotations cots, not rounded.
ScorePrecoDe(cots, fornecedor_id) ==
    score_preco(Avg(cots, DoFornecedor(cots, fornecedor_id)), TodosPrecos(cots))

\* Bounds that the price score is said to exceed.
LimitesScore == {10, 20}

\* C22 as it is stated: the price score is never below 0, and for every
\* bound some history of stored quotations, all at positive prices, gives
\* some supplier a price score above the bound.
C22_ScorePrecoSemLimite ==
    RankingFeito =>
        /\ \A i \in 1..Len(ult.ranking_data) : ult.ranking_data[i].score_preco >= 0
        /\ \A limite \in LimitesScore :
              \E h \in Historicos(PrecosExtremos, 1..MaxForn), f \in 1..MaxForn :
                  /\ TemCotacoes(h, f)
                  /\ FLt(FInt(limite), ScorePrecoDe(h, f))

\* C22 amended: the price score of every entry of the ranking is between 0
\* and 20, not rounded and rounded (0 and 200 tenths).
C22_ScorePrecoAteVinte ==
    RankingFeito =>
        \A i \in 1..Len(ult.ranking_data) :
            /\ ~FLt(ScorePrecoDe(cotacoes, ult.ranking_data[i].fornecedor), FZero)
            /\ ~FLt(FInt(20), ScorePrecoDe(cotacoes, ult.ranking_data[i].fornecedor))
            /\ ult.ranking_data[i].score_preco >= 0
            /\ ult.ranking_data[i].score_preco <= 200

\* A ranking in which the supplier of the cheap quotation has a price score
\* above 10 and the other supplier a price score of 0.
C22_Witness ==
    /\ RankingFeito
    /\ Len(ult.ranking_data) = 2
    /\ ult.ranking_data[1].score_preco > 100
    /\ ult.ranking_data[2].score_preco = 0

\* C23: every stored quotation has a price above 0, and a step leaves every
\* quotation that is stored before and after it as it was: quotations are
\* created and deleted, never edited.
C23_CotacaoPositivaEFixa ==
    /\ [](\A c \in DOMAIN cotacoes : cotacoes[c].preco > 0)
    /\ [][\A c \in DOMAIN cotacoes \cap DOMAIN cotacoes' : cotacoes'[c] = cotacoes[c]]_vars

\* A second quotation has been recorded for a request, at another price
\* and for another supplier, and the first is as it was.
C23_Witness ==
    /\ ult.op = "realizar_cotacao"
    /\ ult.ok
    /\ DOMAIN ult.antes.cotacoes = {1}
    /\ DOMAIN cotacoes = {1, 2}
    /\ cotacoes[1] = ult.antes.cotacoes[1]
    /\ cotacoes[2].requisicao_origem_id = cotacoes[1].requisicao_origem_id
    /\ cotacoes[2].fornecedor_id # cotacoes[1].fornecedor_id

\* What a quotation says, whatever its id.
Conteudos(cots, ids) == {cots[c] : c \in ids}

\* The float total of each group of a list of groups.
TotaisFloat(grupos) ==
    {<<grupos[i].fornecedor, TotalFloat(grupos[i].itens, FZero)>> : i \in 1..Len(grupos)}

\* The session of the batch that has just been handled, had it gone
\* through the requests it found pending in the order pend.
LoteEm(pend) ==
    Lote(pend, [requisicoes |-> ult.antes.requisicoes, cotacoes |-> ult.antes.cotacoes,
                resultados |-> <<>>],
         ult.antes.fornecedores, ult.pedido.form, ult.pedido.ordem)

MesmoLote(sessao) ==
    /\ Conteudos(sessao.cotacoes, DOMAIN sessao.cotacoes \ DOMAIN ult.antes.cotacoes)
          = Conteudos(cotacoes, Novas)
    /\ sessao.requisicoes = requisicoes
    /\ TotaisFloat(sessao.resultados) = TotaisFloat(ult.relatorio)

\* C24: a batch that had gone through the requests it found pending in
\* any other order would have created the same quotations, left the same
\* statuses and given every supplier the same total.
C24_OrdemDasRequisicoes ==
    LoteFeito => \A pend \in Perms(PendentesAntes) : MesmoLote(LoteEm(pend))

\* The threads that have committed a batch in which they had read the
\* request r as pending and found a winner for it.
Emitiram(r) ==
    {t \in Threads :
        /\ ult.lotes[t].pc = "fim"
        /\ \E i \in 1..Len(ult.lotes[t].pendentes) : ult.lotes[t].pendentes[i] = r
        /\ Vencedor(requisicoes[r], r, fornecedores, ult.lotes[t].form,
                    ult.lotes[t].ordem).vencedor_id # 0}

\* C25: every batch run that read a request as pending and has a valid bid
\* for it emits a quotation for it when it commits, whether or not another
\* run has committed one since it read: the request has as many quotations
\* as runs that emitted one, two when two runs read it before either
\* committed.
C25_LotesSemCoordenacao ==
    \A r \in DOMAIN requisicoes :
        Cardinality({c \in DOMAIN cotacoes : cotacoes[c].requisicao_origem_id = r})
            = Cardinality(Emitiram(r))

\* Both runs are over and the request 1 has two quotations.
C25_Witness ==
    /\ \A t \in Threads : ult.lotes[t].pc = "fim"
    /\ Cardinality({c \in DOMAIN cotacoes : cotacoes[c].requisicao_origem_id = 1}) = 2

\* The decimal value, in centavos, of a price string written with a comma
\* or with a dot as decimal separator.
ValorDecimal(lance) == Float(Troca(lance, ",", ".")).v

\* C26: the quotation a batch creates for a request has the decimal value
\* of the winner's submitted price string as its price, also when the
\* string is written with a dot ("2.50" is 2.50), and the line of the
\* request in the report has that value times the quantity as subtotal.
C26_PrecoDoLance ==
    LoteFeito =>
        \A c \in Novas :
            /\ cotacoes[c].preco
                  = ValorDecimal(Lance(cotacoes[c].requisicao_origem_id, cotacoes[c].fornecedor_id))
            /\ \A l \in LinhasDe(cotacoes[c].requisicao_origem_id) :
                  ult.relatorio[l[1]].itens[l[2]].subtotal
                      = ValorDecimal(Lance(cotacoes[c].requisicao_origem_id,
                                           cotacoes[c].fornecedor_id))
                          * ult.antes.requisicoes[cotacoes[c].requisicao_origem_id].quantidade

\* C27: in every reachable state a request whose status is Pendente has
\* no quotation that names it as its originating request.
C27_PendenteSemCotacao ==
    \A r \in DOMAIN requisicoes :
        requisicoes[r].status = "Pendente" =>
            \A c \in DOMAIN cotacoes : cotacoes[c].requisicao_origem_id # r

\* C28: a batch allocation, gone through or not, leaves every product and
\* every supplier, every request that was not Pendente, the candidate set
\* of every request and every quotation that existed as they were; it adds
\* no request and removes none, and when no request was Pendente it
\* changes nothing.
C28_LoteSoMudaPendentes ==
    ult.op = "mapa_cotacao" =>
        /\ produtos = ult.antes.produtos
        /\ fornecedores = ult.antes.fornecedores
        /\ DOMAIN requisicoes = DOMAIN ult.antes.requisicoes
        /\ \A r \in DOMAIN ult.antes.requisicoes :
              /\ requisicoes[r].forns = ult.antes.requisicoes[r].forns
              /\ ult.antes.requisicoes[r].status # "Pendente"
                    => requisicoes[r] = ult.antes.requisicoes[r]
        /\ \A c \in DOMAIN ult.antes.cotacoes :
              c \in DOMAIN cotacoes /\ cotacoes[c] = ult.antes.cotacoes[c]
        /\ (\A r \in DOMAIN ult.antes.requisicoes : ult.antes.requisicoes[r].status # "Pendente")
              => NadaMudou

\* A batch that went through and created a quotation, with a request that
\* was not Pendente and a quotation that existed.
C28_Witness ==
    /\ LoteFeito
    /\ Novas # {}
    /\ DOMAIN ult.antes.cotacoes # {}
    /\ \E r \in DOMAIN ult.antes.requisicoes : ult.antes.requisicoes[r].status # "Pendente"

\* C29: the supplier of the quotation a batch creates for a request is one
\* of the suppliers selected for the request when it was created, also
\* when selected suppliers have been deleted since.
C29_VencedorFoiSelecionado ==
    LoteFeito => \A c \in Novas : cotacoes[c].fornecedor_id \in SelecaoInicial

\* C30: a request of a client whose session holds no usuario_id, other
\* than login, creates, changes and deletes no stored product, supplier,
\* request, quotation or user.
C30_SemSessaoNadaMuda ==
    [][("usuario_id" \notin DOMAIN session /\ ult'.op # "login")
          => (bd' = bd /\ usuarios' = usuarios)]_vars

====
